---- MODULE Spec2Model ----
(***************************************************************************)
(* Audited-entity persistence lifecycle of burchill-dev-rust-utilities:    *)
(* PostgresEntityManager (the audit envelope and its setters), the         *)
(* PostgresEntity default methods save / insert / update / quicksave, and  *)
(* the binding and execution helpers of postgres/mod.rs.                   *)
(*                                                                         *)
(* Option<T> is modelled as a sequence: None is <<>> and Some(v) is <<v>>. *)
(* The database is external: what it answers to a statement is an input    *)
(* of every call (env.store and the returned row).  An entity starts as    *)
(* PostgresEntityManager::new leaves it; every populated state the model   *)
(* visits is one that calls on such an entity produce.                     *)
(***************************************************************************)
EXTENDS Integers, Sequences, FiniteSets, TLC

VARIABLES entity, last, lifecycle, bind

vars == <<entity, last, lifecycle, bind>>

\* ---------------------------------------------------------------- bounds
NumUuid == 2
NumTime == 2
MaxParams == 3

Uuids == 1..NumUuid
Times == 1..NumTime

None == <<>>
Some(v) == <<v>>
Opt(S) == {None} \cup {Some(v) : v \in S}

\* ------------------------------------------------- PostgresBaseEntityData
PostgresBaseEntityData ==
    [id : Opt(Uuids), created_time : Opt(Times), created_by : Opt(Uuids),
     last_updated_time : Opt(Times), last_updated_by : Opt(Uuids),
     active : Opt(BOOLEAN)]

\* ------------------------------------------------- PostgresEntityManager
new ==
    [id |-> None, created_time |-> None, created_by |-> None,
     last_updated_by |-> None, last_updated_time |-> None, active |-> None]

TypeOK == entity \in PostgresBaseEntityData

get_id(e) == e.id
get_created_time(e) == e.created_time
get_last_updated_time(e) == e.last_updated_time
get_created_by(e) == e.created_by
get_last_updated_by(e) == e.last_updated_by
get_active(e) == e.active

\* Mutant: set_id without its `if let None` guard.
set_id_overwrite(e, id) == [e EXCEPT !.id = Some(id)]

set_id(e, id) ==
    IF e.id = None THEN [e EXCEPT !.id = Some(id)] ELSE e

set_created_time(e, time) ==
    IF e.created_time = None THEN [e EXCEPT !.created_time = Some(time)] ELSE e

\* Mutant: set_last_updated_time guarded like set_created_time.
set_last_updated_time_if_empty(e, time) ==
    IF e.last_updated_time = None
    THEN [e EXCEPT !.last_updated_time = Some(time)] ELSE e

set_last_updated_time(e, time) == [e EXCEPT !.last_updated_time = Some(time)]

set_created_by(e, user_id) ==
    IF e.created_by = None THEN [e EXCEPT !.created_by = Some(user_id)] ELSE e

\* Mutant: set_last_updated_by guarded like set_created_by.
set_last_updated_by_if_empty(e, user_id) ==
    IF e.last_updated_by = None
    THEN [e EXCEPT !.last_updated_by = Some(user_id)] ELSE e

set_last_updated_by(e, user_id) == [e EXCEPT !.last_updated_by = Some(user_id)]

set_active(e, active) == [e EXCEPT !.active = Some(active)]

\* ------------------------------------------------------- postgres/mod.rs
\* quaint::Value, by variant.  The variants add_binding_to_query matches are
\* the supported ones; Char, Bytes and Array fall to the `_` arm.
SupportedKinds ==
    {"Integer", "Float", "Double", "Text", "Boolean", "Enum", "Uuid", "DateTime"}
UnsupportedKinds == {"Char", "Bytes", "Array"}
ValueKinds == SupportedKinds \cup UnsupportedKinds

\* The Rust type handed to query.bind for each supported variant.
BoundType(value) ==
    CASE value = "Integer"  -> "Option<i64>"
      [] value = "Float"    -> "Option<f32>"
      [] value = "Double"   -> "Option<f64>"
      [] value = "Text"     -> "Option<String>"
      [] value = "Boolean"  -> "Option<bool>"
      [] value = "Enum"     -> "Option<String>"
      [] value = "Uuid"     -> "Option<Uuid>"
      [] value = "DateTime" -> "Option<DateTime<Utc>>"
      [] OTHER              -> "unbound"

Ok(v) == [ok |-> TRUE, val |-> v, err |-> "none"]
Err(e) == [ok |-> FALSE, val |-> <<>>, err |-> e]

\* A QueryAs is its statement text and the arguments bound so far, in order.
query_as(sql) == [sql |-> sql, args |-> <<>>]
bind_arg(query, value) ==
    [query EXCEPT !.args = Append(@, [ty |-> BoundType(value), of |-> value])]

\* Mutant: the `_` arm returns the query unchanged instead of the error.
add_binding_to_query_skipping(query, value) ==
    IF value \in SupportedKinds THEN Ok(bind_arg(query, value)) ELSE Ok(query)

add_binding_to_query(query, value) ==
    IF value \in SupportedKinds
    THEN Ok(bind_arg(query, value))
    ELSE Err("UnknownSqlType")

RECURSIVE add_bindings_to_query(_, _)
add_bindings_to_query(query, params) ==
    LET next(r) ==
            IF r.ok THEN add_bindings_to_query(r.val, Tail(params)) ELSE r
    IN  IF params = <<>> THEN Ok(query)
        ELSE next(add_binding_to_query(query, Head(params)))

create_sqlx_query(query, bindings) ==
    add_bindings_to_query(query_as(query), bindings)

\* quaint::visitor::Postgres::build: the statement text (its kind and the
\* columns of its RETURNING clause) and its parameters, or the builder's error
\* (env.store = "QuaintError").
visitor_build(query, env) ==
    IF env.store = "QuaintError" THEN Err("QuaintError")
    ELSE Ok([sql |-> <<query.kind>> \o query.returning,
             bindings |-> query.params])

\* What a fetch returns: the outcome, whether the statement reached the
\* executor, the query handed to it and the row it answered.
Fetched(result, executed, q, row) ==
    [result |-> result, executed |-> executed, query |-> q, row |-> row]

\* query.fetch_one(executor): the driver's error or the row `answer`.
execute(q, env, answer) ==
    IF env.store = "SqlxError"
    THEN Fetched("SqlxError", TRUE, Some(q), None)
    ELSE Fetched("Ok", TRUE, Some(q), Some(answer))

fetch_one(query, env, answer) ==
    LET bound(q) ==
            IF ~q.ok THEN Fetched(q.err, FALSE, None, None)
            ELSE execute(q.val, env, answer)
        visited(built) ==
            IF ~built.ok THEN Fetched("QuaintError", FALSE, None, None)
            ELSE bound(create_sqlx_query(built.val.sql, built.val.bindings))
    IN  visited(visitor_build(query, env))

RECURSIVE push_returning(_, _, _)
push_returning(sql, returning_values, count) ==
    IF returning_values = <<>> THEN sql
    ELSE push_returning(
            sql \o <<(IF count = 0 THEN " RETURNING " ELSE ", ")>>
                \o <<Head(returning_values)>>,
            Tail(returning_values), count + 1)

update_and_fetch_one(query, returning_values, env, answer) ==
    LET bound(q) ==
            IF ~q.ok THEN Fetched(q.err, FALSE, None, None)
            ELSE execute(q.val, env, answer)
        visited(built) ==
            IF ~built.ok THEN Fetched("QuaintError", FALSE, None, None)
            ELSE bound(create_sqlx_query(
                    IF Len(returning_values) > 0
                    THEN push_returning(built.val.sql, returning_values, 0)
                    ELSE built.val.sql,
                    built.val.bindings))
    IN  visited(visitor_build(query, env))

\* ---------------------------------------------------- postgres/entity.rs
\* The hooks a concrete entity may override.  The defaults return Ok(()) and
\* touch nothing; env.fail names the hook (if any) whose override returns Err.
PreHooks == {"pre_save_hook", "pre_insert_hook", "pre_update_hook"}
PostHooks == {"post_insert_hook", "post_update_hook", "post_save_hook"}
Hooks == PreHooks \cup PostHooks

hook(name, env) == IF env.fail = name THEN Err("AnyhowError") ELSE Ok(<<>>)

\* The rows sqlx maps a RETURNING clause onto.  The store answers a statement
\* with the row it wrote: the identifier and creation time are its own (env.id,
\* env.time), the active flag is the column's default (env.active), the creator
\* and the last-updated columns are the values the statement carried.
InsertReturn(query, env) ==
    [id |-> env.id, created_by |-> query.user[1], created_time |-> env.time,
     active |-> env.active]
UpdateReturn(query, env) ==
    [last_updated_by |-> query.user[1], last_updated_time |-> query.time[1]]

\* What one call did: the entity it leaves, the stages it ran in order, its
\* result, the statement that reached the executor, the row that came back and
\* the entity each post hook was handed.
Call(e, log, result, sent, row, seen) ==
    [entity |-> e, log |-> log, result |-> result, sent |-> sent, row |-> row,
     seen |-> seen]

\* create_insert_query / create_update_query are the concrete entity's: they
\* fail (env.build = FALSE) or give a statement over the entity's own columns
\* (env.params are the values of those columns).
Statement(kind, params) ==
    [kind |-> kind, params |-> params, returning |-> <<>>, time |-> None,
     user |-> None]

create_insert_query(e, env) ==
    IF env.build THEN Ok(Statement("INSERT", env.params)) ELSE Err("AnyhowError")

create_update_query(e, env) ==
    IF env.build THEN Ok(Statement("UPDATE", env.params)) ELSE Err("AnyhowError")

create_audited_update_query(e, user_id, env) ==
    LET audited(q) ==
            IF ~q.ok THEN q
            ELSE Ok([q.val EXCEPT !.params = @ \o <<"DateTime", "Uuid">>,
                                  !.time = Some(env.time), !.user = Some(user_id)])
    IN  audited(create_update_query(e, env))

create_audited_insert_query(e, user_id, env) ==
    LET audited(q) ==
            IF ~q.ok THEN q
            ELSE Ok([q.val EXCEPT !.params = @ \o <<"Uuid">>,
                                  !.user = Some(user_id)])
    IN  audited(create_insert_query(e, env))

\* Mutant: the write-back of insert without set_created_time.
insert_write_back_without_created_time(e, result) ==
    set_active(set_created_by(set_id(e, result.id), result.created_by),
               result.active)

\* insert, lines 192-196: the returned row written onto the entity.
insert_write_back(e, result) ==
    set_active(
        set_created_time(
            set_created_by(set_id(e, result.id), result.created_by),
            result.created_time),
        result.active)

\* Mutant: the write-back of update also handing the returned time to
\* set_created_time.
update_write_back_touching_created_time(e, result) ==
    set_created_time(
        set_last_updated_time(
            set_last_updated_by(e, result.last_updated_by),
            result.last_updated_time),
        result.last_updated_time)

\* update, lines 214-216.
update_write_back(e, result) ==
    set_last_updated_time(
        set_last_updated_by(e, result.last_updated_by),
        result.last_updated_time)

\* The stages of a call, as they are logged.
SentOf(f, query) == IF f.executed THEN Some(query) ELSE None
ExecOf(f) == IF f.executed THEN <<"execute">> ELSE <<>>

\* Mutant: post_insert_hook called before the returned row is written back.
insert_hook_before_write_back(e, user_id, env) ==
    LET l0 == <<"pre_insert_hook">>
        l1 == <<"pre_insert_hook", "create_audited_insert_query">>
        l2 == <<"pre_insert_hook", "create_audited_insert_query", "fetch_one">>
        fetched(query, f) ==
            IF f.result # "Ok"
            THEN Call(e, l2 \o ExecOf(f), f.result, SentOf(f, query), None, <<>>)
            ELSE IF ~hook("post_insert_hook", env).ok
            THEN Call(e, l2 \o <<"execute", "post_insert_hook">>, "AnyhowError",
                      Some(query), f.row, <<e>>)
            ELSE Call(insert_write_back(e, f.row[1]),
                      l2 \o <<"execute", "post_insert_hook", "write_back">>, "Ok",
                      Some(query), f.row, <<e>>)
        returning(query) == fetched(query, fetch_one(query, env, InsertReturn(query, env)))
        built(audited) ==
            IF ~audited.ok THEN Call(e, l1, audited.err, None, None, <<>>)
            ELSE returning([audited.val EXCEPT !.returning =
                              <<"id", "created_by", "created_time", "active">>])
    IN  IF ~hook("pre_insert_hook", env).ok
        THEN Call(e, l0, "AnyhowError", None, None, <<>>)
        ELSE built(create_audited_insert_query(e, user_id, env))

insert(e, user_id, env) ==
    LET l0 == <<"pre_insert_hook">>
        l1 == <<"pre_insert_hook", "create_audited_insert_query">>
        l2 == <<"pre_insert_hook", "create_audited_insert_query", "fetch_one">>
        written(e1, l3, sent, row) ==
            IF ~hook("post_insert_hook", env).ok
            THEN Call(e1, l3, "AnyhowError", sent, row, <<e1>>)
            ELSE Call(e1, l3, "Ok", sent, row, <<e1>>)
        fetched(query, f) ==
            IF f.result # "Ok"
            THEN Call(e, l2 \o ExecOf(f), f.result, SentOf(f, query), None, <<>>)
            ELSE written(insert_write_back(e, f.row[1]),
                         l2 \o <<"execute", "write_back", "post_insert_hook">>,
                         Some(query), f.row)
        returning(query) == fetched(query, fetch_one(query, env, InsertReturn(query, env)))
        built(audited) ==
            IF ~audited.ok THEN Call(e, l1, audited.err, None, None, <<>>)
            ELSE returning([audited.val EXCEPT !.returning =
                              <<"id", "created_by", "created_time", "active">>])
    IN  IF ~hook("pre_insert_hook", env).ok
        THEN Call(e, l0, "AnyhowError", None, None, <<>>)
        ELSE built(create_audited_insert_query(e, user_id, env))

\* Mutant: update failing fast on an entity that has no identifier.
update_requiring_id(e, user_id, env) ==
    LET l0 == <<"pre_update_hook">>
        l1 == <<"pre_update_hook", "create_audited_update_query">>
        l2 == <<"pre_update_hook", "create_audited_update_query",
                "update_and_fetch_one">>
        written(e1, l3, sent, row) ==
            IF ~hook("post_update_hook", env).ok
            THEN Call(e1, l3, "AnyhowError", sent, row, <<e1>>)
            ELSE Call(e1, l3, "Ok", sent, row, <<e1>>)
        fetched(query, f) ==
            IF f.result # "Ok"
            THEN Call(e, l2 \o ExecOf(f), f.result, SentOf(f, query), None, <<>>)
            ELSE written(update_write_back(e, f.row[1]),
                         l2 \o <<"execute", "write_back", "post_update_hook">>,
                         Some(query), f.row)
        built(audited) ==
            IF ~audited.ok THEN Call(e, l1, audited.err, None, None, <<>>)
            ELSE fetched(audited.val,
                         update_and_fetch_one(
                            audited.val, <<"last_updated_by, last_updated_time">>,
                            env, UpdateReturn(audited.val, env)))
    IN  IF ~hook("pre_update_hook", env).ok
        THEN Call(e, l0, "AnyhowError", None, None, <<>>)
        ELSE IF get_id(e) = None
        THEN Call(e, l0, "MissingIdError", None, None, <<>>)
        ELSE built(create_audited_update_query(e, user_id, env))

\* Mutant: update looking at the result of pre_update_hook only after the
\* statement has been executed and its row written back.
update_hook_after_statement(e, user_id, env) ==
    LET l1 == <<"create_audited_update_query">>
        l2 == <<"create_audited_update_query", "update_and_fetch_one">>
        written(e1, l3, sent, row) ==
            IF ~hook("pre_update_hook", env).ok
            THEN Call(e1, l3 \o <<"pre_update_hook">>, "AnyhowError", sent, row, <<>>)
            ELSE IF ~hook("post_update_hook", env).ok
            THEN Call(e1, l3 \o <<"pre_update_hook", "post_update_hook">>,
                      "AnyhowError", sent, row, <<e1>>)
            ELSE Call(e1, l3 \o <<"pre_update_hook", "post_update_hook">>, "Ok",
                      sent, row, <<e1>>)
        fetched(query, f) ==
            IF f.result # "Ok"
            THEN Call(e, l2 \o ExecOf(f), f.result, SentOf(f, query), None, <<>>)
            ELSE written(update_write_back(e, f.row[1]),
                         l2 \o <<"execute", "write_back">>, Some(query), f.row)
        built(audited) ==
            IF ~audited.ok THEN Call(e, l1, audited.err, None, None, <<>>)
            ELSE fetched(audited.val,
                         update_and_fetch_one(
                            audited.val, <<"last_updated_by, last_updated_time">>,
                            env, UpdateReturn(audited.val, env)))
    IN  built(create_audited_update_query(e, user_id, env))

update(e, user_id, env) ==
    LET l0 == <<"pre_update_hook">>
        l1 == <<"pre_update_hook", "create_audited_update_query">>
        l2 == <<"pre_update_hook", "create_audited_update_query",
                "update_and_fetch_one">>
        written(e1, l3, sent, row) ==
            IF ~hook("post_update_hook", env).ok
            THEN Call(e1, l3, "AnyhowError", sent, row, <<e1>>)
            ELSE Call(e1, l3, "Ok", sent, row, <<e1>>)
        fetched(query, f) ==
            IF f.result # "Ok"
            THEN Call(e, l2 \o ExecOf(f), f.result, SentOf(f, query), None, <<>>)
            ELSE written(update_write_back(e, f.row[1]),
                         l2 \o <<"execute", "write_back", "post_update_hook">>,
                         Some(query), f.row)
        built(audited) ==
            IF ~audited.ok THEN Call(e, l1, audited.err, None, None, <<>>)
            ELSE fetched(audited.val,
                         update_and_fetch_one(
                            audited.val, <<"last_updated_by, last_updated_time">>,
                            env, UpdateReturn(audited.val, env)))
    IN  IF ~hook("pre_update_hook", env).ok
        THEN Call(e, l0, "AnyhowError", None, None, <<>>)
        ELSE built(create_audited_update_query(e, user_id, env))

\* Mutant: save with the branches of its dispatch exchanged.
save_inverted(e, user_id, env) ==
    LET l0 == <<"pre_save_hook">>
        dispatched(r) ==
            IF r.result # "Ok" THEN [r EXCEPT !.log = l0 \o @]
            ELSE IF ~hook("post_save_hook", env).ok
            THEN Call(r.entity, l0 \o r.log \o <<"post_save_hook">>, "AnyhowError",
                      r.sent, r.row, r.seen \o <<r.entity>>)
            ELSE Call(r.entity, l0 \o r.log \o <<"post_save_hook">>, "Ok",
                      r.sent, r.row, r.seen \o <<r.entity>>)
    IN  IF ~hook("pre_save_hook", env).ok
        THEN Call(e, l0, "AnyhowError", None, None, <<>>)
        ELSE dispatched(IF get_id(e) # None
                        THEN insert(e, user_id, env)
                        ELSE update(e, user_id, env))

save(e, user_id, env) ==
    LET l0 == <<"pre_save_hook">>
        dispatched(r) ==
            IF r.result # "Ok" THEN [r EXCEPT !.log = l0 \o @]
            ELSE IF ~hook("post_save_hook", env).ok
            THEN Call(r.entity, l0 \o r.log \o <<"post_save_hook">>, "AnyhowError",
                      r.sent, r.row, r.seen \o <<r.entity>>)
            ELSE Call(r.entity, l0 \o r.log \o <<"post_save_hook">>, "Ok",
                      r.sent, r.row, r.seen \o <<r.entity>>)
    IN  IF ~hook("pre_save_hook", env).ok
        THEN Call(e, l0, "AnyhowError", None, None, <<>>)
        ELSE dispatched(IF get_id(e) # None
                        THEN update(e, user_id, env)
                        ELSE insert(e, user_id, env))

quicksave(e, user_id, env) == save(e, user_id, env)

\* ------------------------------------------------------------ environment
\* The inputs of one call besides the acting user: the hook that fails, the
\* concrete entity's statement builder and column values, and the store's
\* answer.  An input that is never read once an earlier stage has failed is
\* kept at its default, so that each outcome is enumerated once.
OkParams == <<"Text">>
BadParams == <<"Bytes">>
Env(fail, build, params, store, id, time, active) ==
    [fail |-> fail, build |-> build, params |-> params, store |-> store,
     id |-> id, time |-> time, active |-> active]

DefaultEnv == Env("none", TRUE, OkParams, "Row", 1, 1, TRUE)

FailingEnvs ==
    {[DefaultEnv EXCEPT !.fail = h] : h \in PreHooks}
    \cup {[DefaultEnv EXCEPT !.build = FALSE],
          [DefaultEnv EXCEPT !.params = BadParams],
          [DefaultEnv EXCEPT !.store = "QuaintError"],
          [DefaultEnv EXCEPT !.store = "SqlxError"]}

InsertAnswers(posthooks) ==
    {[DefaultEnv EXCEPT !.fail = h, !.id = id, !.time = time, !.active = active] :
        h \in posthooks \cup {"none"},
        id \in Uuids, time \in Times, active \in {TRUE}}

UpdateAnswers(posthooks) ==
    {[DefaultEnv EXCEPT !.fail = h, !.time = time] :
        h \in posthooks \cup {"none"}, time \in Times}

InsertEnvs == FailingEnvs \cup InsertAnswers({"post_insert_hook"})
UpdateEnvs == FailingEnvs \cup UpdateAnswers({"post_update_hook"})
SaveInsertEnvs ==
    FailingEnvs \cup InsertAnswers({"post_insert_hook", "post_save_hook"})
SaveUpdateEnvs ==
    FailingEnvs \cup UpdateAnswers({"post_update_hook", "post_save_hook"})

SaveEnvs(e) == IF e.id = None THEN SaveInsertEnvs ELSE SaveUpdateEnvs

\* ------------------------------------------------------------ state machine
NoCall ==
    [op |-> "none", log |-> <<>>, result |-> "none", sent |-> None,
     row |-> None, seen |-> <<>>]

Record(op, r) ==
    [op |-> op, log |-> r.log, result |-> r.result, sent |-> r.sent,
     row |-> r.row, seen |-> r.seen]

\* History: whether every call since PostgresEntityManager::new has been a
\* successful save, how far that run has come, the row its first save got back
\* and the last updater the entity held before its latest save.
Fresh == [phase |-> "new", first |-> None, before |-> None]
Other == [phase |-> "other", first |-> None, before |-> None]

Advance(lc, e, r) ==
    IF r.result = "Ok" /\ lc.phase # "other"
    THEN IF lc.phase = "new"
         THEN [phase |-> "inserted", first |-> r.row, before |-> e.last_updated_by]
         ELSE [phase |-> "updated", first |-> lc.first,
               before |-> e.last_updated_by]
    ELSE Other

Idle == [pc |-> "idle", fn |-> "none", params |-> <<>>, store |-> "Row",
         out |-> Fetched("none", FALSE, None, None)]

Init ==
    /\ entity = new
    /\ last = NoCall
    /\ lifecycle = Fresh
    /\ bind = Idle

\* save(user_id, executor), or quicksave(user_id), which is save on the entity's
\* own pool: the executor is not part of the model, so the two coincide.
Save ==
    \E user_id \in Uuids, env \in SaveEnvs(entity) :
        \E r \in {quicksave(entity, user_id, env)} :
            /\ entity' = r.entity
            /\ last' = Record("save", r)
            /\ lifecycle' = Advance(lifecycle, entity, r)
            /\ UNCHANGED bind

Insert ==
    \E user_id \in Uuids, env \in InsertEnvs :
        \E r \in {insert(entity, user_id, env)} :
            /\ entity' = r.entity
            /\ last' = Record("insert", r)
            /\ lifecycle' = Other
            /\ UNCHANGED bind

Update ==
    \E user_id \in Uuids, env \in UpdateEnvs :
        \E r \in {update(entity, user_id, env)} :
            /\ entity' = r.entity
            /\ last' = Record("update", r)
            /\ lifecycle' = Other
            /\ UNCHANGED bind

SetActive ==
    \E active \in BOOLEAN :
        /\ entity' = set_active(entity, active)
        /\ last' = [NoCall EXCEPT !.op = "set_active", !.result = "Ok"]
        /\ lifecycle' = Other
        /\ UNCHANGED bind

Next == Save \/ Insert \/ Update \/ SetActive

Spec == Init /\ [][Next]_vars

\* ------------------------------------------- the binding helpers on their own
ParamLists == UNION {[1..n -> ValueKinds] : n \in 0..MaxParams}
StoreAnswers == {"Row", "QuaintError", "SqlxError"}

InitBind ==
    /\ entity = new
    /\ last = NoCall
    /\ lifecycle = Fresh
    /\ bind \in {[Idle EXCEPT !.pc = "call", !.params = ps, !.store = st] :
                    ps \in ParamLists, st \in StoreAnswers}

Returned(fn, out) == [bind EXCEPT !.pc = "done", !.fn = fn, !.out = out]

OfResult(r) ==
    IF r.ok THEN Fetched("Ok", FALSE, Some(r.val), None)
    ELSE Fetched(r.err, FALSE, None, None)

BindEnv == [DefaultEnv EXCEPT !.store = bind.store]
BindStatement(kind) == [Statement(kind, bind.params) EXCEPT !.returning = <<"id">>]

AddBindings ==
    /\ bind.pc = "call"
    /\ bind' = Returned("add_bindings_to_query",
                        OfResult(add_bindings_to_query(query_as(<<"SELECT">>), bind.params)))
    /\ UNCHANGED <<entity, last, lifecycle>>

CreateSqlxQuery ==
    /\ bind.pc = "call"
    /\ bind' = Returned("create_sqlx_query",
                        OfResult(create_sqlx_query(<<"SELECT">>, bind.params)))
    /\ UNCHANGED <<entity, last, lifecycle>>

FetchOne ==
    /\ bind.pc = "call"
    /\ bind' = Returned("fetch_one",
                        fetch_one(BindStatement("INSERT"), BindEnv, <<"row">>))
    /\ UNCHANGED <<entity, last, lifecycle>>

UpdateAndFetchOne ==
    /\ bind.pc = "call"
    /\ bind' = Returned("update_and_fetch_one",
                        update_and_fetch_one(
                            [BindStatement("UPDATE") EXCEPT !.returning = <<>>],
                            <<"id">>, BindEnv, <<"row">>))
    /\ UNCHANGED <<entity, last, lifecycle>>

NextBind == AddBindings \/ CreateSqlxQuery \/ FetchOne \/ UpdateAndFetchOne

SpecBind == InitBind /\ [][NextBind]_vars

\* ------------------------------------------------------------------ claims
Has(l, stage) == \E i \in DOMAIN l.log : l.log[i] = stage
FailedAt(l, stage) ==
    l.result = "AnyhowError" /\ l.log # <<>> /\ l.log[Len(l.log)] = stage

\* insert (called directly or by save) returned Ok within the call.
InsertSucceeded(l) ==
    Has(l, "post_insert_hook") /\ ~FailedAt(l, "post_insert_hook")
\* update (called directly or by save) returned Ok within the call.
UpdateSucceeded(l) ==
    Has(l, "post_update_hook") /\ ~FailedAt(l, "post_update_hook")

SaveInsertStages ==
    <<"pre_save_hook", "pre_insert_hook", "create_audited_insert_query",
      "fetch_one", "execute", "write_back", "post_insert_hook", "post_save_hook">>
SaveUpdateStages ==
    <<"pre_save_hook", "pre_update_hook", "create_audited_update_query",
      "update_and_fetch_one", "execute", "write_back", "post_update_hook",
      "post_save_hook">>
UpdateStages ==
    <<"pre_update_hook", "create_audited_update_query", "update_and_fetch_one",
      "execute", "write_back", "post_update_hook">>
Outcomes == {"Ok", "AnyhowError", "UnknownSqlType", "QuaintError", "SqlxError"}

\* C1: a save whose pre_save_hook succeeded invokes insert and not update when
\* the entity has no identifier, and update and not insert when it has one.
C1_SaveDispatchesOnId ==
    [][(last'.op = "save" /\ Len(last'.log) > 1) =>
          IF get_id(entity) = None
          THEN Has(last', "pre_insert_hook") /\ ~Has(last', "pre_update_hook")
          ELSE Has(last', "pre_update_hook") /\ ~Has(last', "pre_insert_hook")]_vars

C1_Witness ==
    /\ last.op = "save" /\ last.result = "Ok"
    /\ Has(last, "pre_update_hook") /\ ~Has(last, "pre_insert_hook")
    /\ get_id(entity) # None

\* C2 as stated: after any successful insert the entity's id, created_by,
\* created_time and active equal the returned row's.
C2_InsertTakesReturnedRow ==
    InsertSucceeded(last) =>
        /\ get_id(entity) = Some(last.row[1].id)
        /\ get_created_by(entity) = Some(last.row[1].created_by)
        /\ get_created_time(entity) = Some(last.row[1].created_time)
        /\ get_active(entity) = Some(last.row[1].active)

\* C2 as amended: after any successful insert active equals the returned row's,
\* and each of id, created_by and created_time equals the returned row's value
\* when the field was empty before the call and its earlier value otherwise.
C2_InsertFillsEmptyFields ==
    [][InsertSucceeded(last') =>
          /\ get_active(entity') = Some(last'.row[1].active)
          /\ get_id(entity') =
                IF entity.id = None THEN Some(last'.row[1].id) ELSE entity.id
          /\ get_created_by(entity') =
                IF entity.created_by = None
                THEN Some(last'.row[1].created_by) ELSE entity.created_by
          /\ get_created_time(entity') =
                IF entity.created_time = None
                THEN Some(last'.row[1].created_time) ELSE entity.created_time]_vars

C2_Witness ==
    /\ last.op = "insert" /\ InsertSucceeded(last)
    /\ get_id(entity) # Some(last.row[1].id)
    /\ get_active(entity) = Some(last.row[1].active)

\* C3: a successful update leaves id, created_by, created_time and active as
\* they were; only the last-updated fields may differ.
C3_UpdateFrame ==
    [][UpdateSucceeded(last') =>
          /\ entity'.id = entity.id
          /\ entity'.created_by = entity.created_by
          /\ entity'.created_time = entity.created_time
          /\ entity'.active = entity.active]_vars

C3_Witness ==
    /\ last.op = "update" /\ UpdateSucceeded(last)
    /\ entity.id # None
    /\ entity.last_updated_by = Some(last.row[1].last_updated_by)
    /\ entity.last_updated_by # entity.created_by

\* C4: first write wins.  On a populated field set_id, set_created_time and
\* set_created_by change nothing whatever their argument, and no call changes
\* a populated id, created_time or created_by.
C4_FirstWriteWins ==
    [][/\ \A id \in Uuids : entity.id # None => set_id(entity, id) = entity
       /\ \A time \in Times :
            entity.created_time # None => set_created_time(entity, time) = entity
       /\ \A user_id \in Uuids :
            entity.created_by # None => set_created_by(entity, user_id) = entity
       /\ entity.id # None => entity'.id = entity.id
       /\ entity.created_time # None => entity'.created_time = entity.created_time
       /\ entity.created_by # None => entity'.created_by = entity.created_by]_vars

C4_Witness ==
    /\ InsertSucceeded(last)
    /\ entity.id # None /\ entity.id # Some(last.row[1].id)
    /\ entity.created_by # None
    /\ entity.created_by # Some(last.row[1].created_by)
    /\ entity.created_time # None
    /\ entity.created_time # Some(last.row[1].created_time)

\* C5: set_last_updated_time and set_last_updated_by store their argument
\* whatever the field held, and after a successful update the last-updated
\* fields are those of the row that update got back.
C5_LastUpdatedOverwritten ==
    /\ \A user_id \in Uuids :
            get_last_updated_by(set_last_updated_by(entity, user_id))
                = Some(user_id)
    /\ \A time \in Times :
            get_last_updated_time(set_last_updated_time(entity, time)) = Some(time)
    /\ UpdateSucceeded(last) =>
            /\ entity.last_updated_by = Some(last.row[1].last_updated_by)
            /\ entity.last_updated_time = Some(last.row[1].last_updated_time)

C5_Witness ==
    /\ lifecycle.phase = "updated"
    /\ lifecycle.before # None
    /\ lifecycle.before # entity.last_updated_by
    /\ entity.last_updated_by = Some(last.row[1].last_updated_by)

\* C6: binding.  With a value of an unsupported kind among the parameters the
\* result is UnknownSqlType and no query comes back; otherwise the query holds
\* one binding per parameter, in the parameters' order.  Through
\* create_sqlx_query, fetch_one and update_and_fetch_one the error comes back
\* as it is and the statement is not executed.
Unbindable(params) == \E i \in DOMAIN params : params[i] \in UnsupportedKinds
BoundInOrder(q, params) ==
    /\ Len(q.args) = Len(params)
    /\ \A i \in DOMAIN params :
            q.args[i] = [ty |-> BoundType(params[i]), of |-> params[i]]

C6_BindingAllOrError ==
    bind.pc = "done" =>
        IF bind.fn \in {"fetch_one", "update_and_fetch_one"}
              /\ bind.store = "QuaintError"
        THEN bind.out.result = "QuaintError" /\ ~bind.out.executed
        ELSE IF Unbindable(bind.params)
        THEN /\ bind.out.result = "UnknownSqlType"
             /\ bind.out.query = None
             /\ ~bind.out.executed
        ELSE /\ bind.out.query # None
             /\ BoundInOrder(bind.out.query[1], bind.params)
             /\ bind.fn \in {"add_bindings_to_query", "create_sqlx_query"} =>
                    bind.out.result = "Ok" /\ ~bind.out.executed
             /\ bind.fn \in {"fetch_one", "update_and_fetch_one"} =>
                    /\ bind.out.executed
                    /\ bind.out.result =
                          (IF bind.store = "SqlxError" THEN "SqlxError" ELSE "Ok")

C6_Witness ==
    /\ bind.pc = "done" /\ bind.fn = "update_and_fetch_one"
    /\ Len(bind.params) = MaxParams
    /\ bind.params[1] \in SupportedKinds
    /\ bind.params[2] \in UnsupportedKinds
    /\ bind.store = "Row"
    /\ bind.out.result = "UnknownSqlType"

\* C7: a failing pre hook ends the call before any statement is sent and with
\* the entity as it was; a failing post hook ends it after the round trip, with
\* no later hook run and the entity as that hook was handed it, the returned
\* row written back.
RowWritten(e, l) ==
    IF Has(l, "pre_insert_hook")
    THEN e.active = Some(l.row[1].active) /\ e.id # None
    ELSE /\ e.last_updated_by = Some(l.row[1].last_updated_by)
         /\ e.last_updated_time = Some(l.row[1].last_updated_time)

C7_FailingHookAborts ==
    [][/\ \A h \in PreHooks :
            FailedAt(last', h) =>
                /\ last'.sent = None
                /\ ~Has(last', "execute")
                /\ entity' = entity
       /\ \A h \in PostHooks :
            FailedAt(last', h) =>
                /\ last'.sent # None /\ last'.row # None
                /\ Has(last', "execute")
                /\ \A i \in 1..(Len(last'.log) - 1) : last'.log[i] # h
                /\ h # "post_save_hook" => ~Has(last', "post_save_hook")
                /\ last'.seen # <<>>
                /\ entity' = last'.seen[Len(last'.seen)]
                /\ RowWritten(entity', last')]_vars

C7_Witness ==
    /\ last.op = "save" /\ FailedAt(last, "post_insert_hook")
    /\ entity.id = Some(last.row[1].id)
    /\ entity.created_by = Some(last.row[1].created_by)

\* C8: from PostgresEntityManager::new, in a run of successful saves the first
\* save inserts and every later one updates; id, created_by and created_time
\* stay those of the first insert's row, and the last-updated fields are empty
\* after the first save and those of the latest update's row afterwards.
C8_SaveLifecycle ==
    /\ lifecycle.phase = "new" => entity = new
    /\ lifecycle.phase = "inserted" =>
            /\ Has(last, "pre_insert_hook") /\ ~Has(last, "pre_update_hook")
            /\ lifecycle.first = last.row
            /\ get_last_updated_by(entity) = None
            /\ get_last_updated_time(entity) = None
    /\ lifecycle.phase = "updated" =>
            /\ Has(last, "pre_update_hook") /\ ~Has(last, "pre_insert_hook")
            /\ get_last_updated_by(entity) = Some(last.row[1].last_updated_by)
            /\ get_last_updated_time(entity)
                    = Some(last.row[1].last_updated_time)
    /\ lifecycle.phase \in {"inserted", "updated"} =>
            /\ get_id(entity) = Some(lifecycle.first[1].id)
            /\ get_created_by(entity) = Some(lifecycle.first[1].created_by)
            /\ get_created_time(entity) = Some(lifecycle.first[1].created_time)

C8_Witness ==
    /\ lifecycle.phase = "updated"
    /\ lifecycle.before # None
    /\ get_created_by(entity) # get_last_updated_by(entity)
    /\ get_created_by(entity) = Some(lifecycle.first[1].created_by)

\* C9: a save that returns Ok ran pre_save_hook, the pre hook of its branch, the
\* round trip, the write-back, the post hook of its branch and post_save_hook,
\* in that order and once each, and both post hooks were handed the entity with
\* the returned row written.
C9_SaveStagesInOrder ==
    (last.op = "save" /\ last.result = "Ok") =>
        /\ last.log \in {SaveInsertStages, SaveUpdateStages}
        /\ last.sent # None /\ last.row # None
        /\ last.seen = <<entity, entity>>
        /\ last.log = SaveInsertStages =>
                /\ entity.id = Some(last.row[1].id)
                /\ entity.active = Some(last.row[1].active)
        /\ last.log = SaveUpdateStages =>
                /\ entity.last_updated_by = Some(last.row[1].last_updated_by)
                /\ entity.last_updated_time = Some(last.row[1].last_updated_time)

C9_Witness ==
    /\ last.op = "save" /\ last.result = "Ok"
    /\ last.log = SaveInsertStages
    /\ last.seen[1].id = Some(last.row[1].id)

\* C10: update on an entity without identifier checks no identifier: it runs
\* the same stages, sends the same statement and ends the same way as on an
\* entity with one, never with a missing-identifier error, and on a returned row
\* sets the last-updated fields while id stays empty.
SameRun(a, b) ==
    /\ a.log = b.log /\ a.result = b.result
    /\ a.sent = b.sent /\ a.row = b.row
    /\ a.entity.id = None

C10_UpdateWithoutIdChecksNothing ==
    get_id(entity) = None =>
        /\ \A user_id \in Uuids, env \in UpdateEnvs :
                SameRun(update(entity, user_id, env),
                        update([entity EXCEPT !.id = Some(1)], user_id, env))
        /\ last.op = "update" =>
                /\ last.result \in Outcomes
                /\ last.result = "Ok" =>
                        /\ last.log = UpdateStages
                        /\ entity.last_updated_by
                                = Some(last.row[1].last_updated_by)
                        /\ entity.last_updated_time
                                = Some(last.row[1].last_updated_time)

C10_Witness ==
    /\ last.op = "update" /\ last.result = "Ok"
    /\ get_id(entity) = None
    /\ entity.last_updated_by # None

====
